---- MODULE Spec2Model ----
(***************************************************************************)
(* Model of speedometer_simple.py: the Speedometer sample log (update,     *)
(* delta, speed), delta_to_speed, curve, and the polling loop of           *)
(* console / NetworkTap.wait_creation / do_simple.                         *)
(*                                                                         *)
(* Numbers.  time.time() returns seconds as a float.  The model counts     *)
(* time in clock ticks, TicksPerMs ticks to the millisecond, so that an    *)
(* elapsed time can be a fraction of a millisecond; a timestamp is the     *)
(* tick count.  Float values that are not whole numbers (the weighted      *)
(* speed ws of curve) are exact fractions <<numerator, denominator>>;      *)
(* float rounding error is not modelled.  long(x) truncates toward zero,   *)
(* and long / long is Python 2 floor division.                             *)
(***************************************************************************)
EXTENDS Integers, Sequences, FiniteSets, TLC

VARIABLES spd, hist, call, res, pc, f, step

vars == <<spd, hist, call, res, pc, f, step>>

\* ------------------------------------------------------------------ bounds
MaxLog == 2
MaxUpdates == 3
MaxSkip == 1
MaxPolls == 8
TicksPerMs == 2

TicksPerSec == 1000 * TicksPerMs

\* Values time.time() and the byte counter take in the object-level model.
Times == {0, 1, 7}
Bytes == {0, 1}

\* ----------------------------------------------------------- Python values
\* None
None == <<>>
NoneResult == [kind |-> "None"]
Raise(e) == [kind |-> "raise", exc |-> e]
DeltaResult(time_passed, byte_increase) ==
    [kind |-> "delta", time_passed |-> time_passed, byte_increase |-> byte_increase]
IntResult(n) == [kind |-> "int", val |-> n]

Abs(n) == IF n < 0 THEN -n ELSE n

RECURSIVE Gcd(_, _)
Gcd(a, b) == IF b = 0 THEN a ELSE Gcd(b, a % b)

\* The fraction n/d (d # 0) in lowest terms with a positive denominator.
Frac(n, d) ==
    LET g == Gcd(Abs(n), Abs(d))
        s == IF d < 0 THEN -1 ELSE 1
    IN  <<(s * n) \div g, (s * d) \div g>>

FracAdd(a, b) == Frac(a[1] * b[2] + b[1] * a[2], a[2] * b[2])

\* long(n/d) for d > 0: truncation toward zero.
TruncDiv(n, d) == IF n >= 0 THEN n \div d ELSE -((-n) \div d)

\* seq[i] for a negative Python index i (-1 is the last element).
PyIndex(seq, i) == seq[Len(seq) + i + 1]

\* seq[-k:] for k >= 1.
PyTail(seq, k) ==
    IF Len(seq) <= k THEN seq ELSE SubSeq(seq, Len(seq) - k + 1, Len(seq))

\* -------------------------------------------------------------- Speedometer
\* Speedometer.__init__
Speedometer(maxlog) == [log |-> <<>>, start |-> None, maxlog |-> maxlog]

\* update that truncates to maxlog readings instead of maxlog + 1.
update_keep_maxlog(self, t, bytes) ==
    LET reading == <<t, bytes>>
        start1 == IF self.start = None THEN reading ELSE self.start
        log1 == Append(self.log, reading)
    IN  [self EXCEPT !.start = start1, !.log = PyTail(log1, self.maxlog)]

\* update whose test of start is a test of the counter: a start with
\* counter 0 counts as unset.
update_start_falsy_counter(self, t, bytes) ==
    LET reading == <<t, bytes>>
        unset == IF self.start = None THEN TRUE ELSE self.start[2] = 0
        start1 == IF unset THEN reading ELSE self.start
        log1 == Append(self.log, reading)
    IN  [self EXCEPT !.start = start1, !.log = PyTail(log1, self.maxlog + 1)]

\* Speedometer.update, with t the value time.time() returns.
update(self, t, bytes) ==
    LET reading == <<t, bytes>>
        start1 == IF self.start = None THEN reading ELSE self.start
        log1 == Append(self.log, reading)
    IN  [self EXCEPT !.start = start1, !.log = PyTail(log1, self.maxlog + 1)]

\* delta whose target index lacks the + 1.
delta_target_off_by_one(self, readings, skip) ==
    IF ~(readings >= 0) THEN Raise("AssertionError")
    ELSE IF ~(readings <= self.maxlog) THEN Raise("AssertionError")
    ELSE IF ~(skip >= 0) THEN Raise("AssertionError")
    ELSE IF skip > 0 /\ ~(readings > 0) THEN Raise("AssertionError")
    ELSE IF skip > Len(self.log) - 1 THEN NoneResult
    ELSE LET current == PyIndex(self.log, -1 - skip)
             target == IF readings = 0 THEN self.start
                       ELSE IF Len(self.log) > readings + skip
                            THEN PyIndex(self.log, -(readings + skip))
                            ELSE None
         IN  IF target = None THEN NoneResult
             ELSE IF target = current THEN NoneResult
             ELSE DeltaResult(current[1] - target[1], current[2] - target[2])

\* delta that clamps readings to maxlog instead of asserting.
delta_clamp_readings(self, readings, skip) ==
    LET r == IF readings > self.maxlog THEN self.maxlog ELSE readings
    IN  IF ~(r >= 0) THEN Raise("AssertionError")
        ELSE IF ~(skip >= 0) THEN Raise("AssertionError")
        ELSE IF skip > 0 /\ ~(r > 0) THEN Raise("AssertionError")
        ELSE IF skip > Len(self.log) - 1 THEN NoneResult
        ELSE LET current == PyIndex(self.log, -1 - skip)
                 target == IF r = 0 THEN self.start
                           ELSE IF Len(self.log) > r + skip
                                THEN PyIndex(self.log, -(r + skip + 1))
                                ELSE None
             IN  IF target = None THEN NoneResult
                 ELSE IF target = current THEN NoneResult
                 ELSE DeltaResult(current[1] - target[1], current[2] - target[2])

\* Speedometer.delta
delta(self, readings, skip) ==
    IF ~(readings >= 0) THEN Raise("AssertionError")
    ELSE IF ~(readings <= self.maxlog) THEN Raise("AssertionError")
    ELSE IF ~(skip >= 0) THEN Raise("AssertionError")
    ELSE IF skip > 0 /\ ~(readings > 0) THEN Raise("AssertionError")
    ELSE IF skip > Len(self.log) - 1 THEN NoneResult
    ELSE LET current == PyIndex(self.log, -1 - skip)
             target == IF readings = 0 THEN self.start
                       ELSE IF Len(self.log) > readings + skip
                            THEN PyIndex(self.log, -(readings + skip + 1))
                            ELSE None
         IN  IF target = None THEN NoneResult
             ELSE IF target = current THEN NoneResult
             ELSE DeltaResult(current[1] - target[1], current[2] - target[2])

\* delta_to_speed dividing by the elapsed time itself, not by its whole
\* milliseconds.
delta_to_speed_untruncated_time(time_passed, byte_increase) ==
    IF time_passed <= 0 THEN 0
    ELSE IF TruncDiv(time_passed * 1000, TicksPerSec) = 0 THEN 0
    ELSE (TruncDiv(byte_increase[1] * 1000, byte_increase[2]) * TicksPerMs)
            \div time_passed

\* delta_to_speed((time_passed, byte_increase)): time_passed in ticks,
\* byte_increase a fraction.
delta_to_speed(time_passed, byte_increase) ==
    IF time_passed <= 0 THEN 0
    ELSE IF TruncDiv(time_passed * 1000, TicksPerSec) = 0 THEN 0
    ELSE TruncDiv(byte_increase[1] * 1000, byte_increase[2])
            \div TruncDiv(time_passed * 1000, TicksPerSec)

\* Speedometer.speed
speed(self, readings, skip) ==
    LET d == delta(self, readings, skip)
    IN  IF d.kind = "raise" THEN d
        ELSE IF d.kind = "delta"
             THEN IntResult(delta_to_speed(d.time_passed, Frac(d.byte_increase, 1)))
             ELSE NoneResult

\* curve: speed sampling relative weights
val == <<6, 5, 4, 3, 2, 1>>

\* curve's loop adding 1, not the weight, to the total weighting.
RECURSIVE curve_loop_unit_wtot(_, _, _, _)
curve_loop_unit_wtot(s, i, wtot, ws) ==
    IF i >= Len(val) THEN [kind |-> "acc", n |-> i, wtot |-> wtot, ws |-> ws]
    ELSE LET d == delta(s, 1, i)
         IN  IF d.kind = "raise" THEN d
             ELSE IF d.kind = "None"
                  THEN [kind |-> "acc", n |-> i, wtot |-> wtot, ws |-> ws]
             ELSE IF d.time_passed = 0 THEN Raise("ZeroDivisionError")
             ELSE curve_loop_unit_wtot(s, i + 1, wtot + 1,
                     FracAdd(ws, Frac(d.byte_increase * val[i + 1] * TicksPerSec,
                                      d.time_passed)))

\* curve's loop pairing the weights oldest-first: the newest step gets 1.
RECURSIVE curve_loop_reversed_weights(_, _, _, _)
curve_loop_reversed_weights(s, i, wtot, ws) ==
    IF i >= Len(val) THEN [kind |-> "acc", n |-> i, wtot |-> wtot, ws |-> ws]
    ELSE LET d == delta(s, 1, i)
         IN  IF d.kind = "raise" THEN d
             ELSE IF d.kind = "None"
                  THEN [kind |-> "acc", n |-> i, wtot |-> wtot, ws |-> ws]
             ELSE IF d.time_passed = 0 THEN Raise("ZeroDivisionError")
             ELSE curve_loop_reversed_weights(s, i + 1, wtot + val[Len(val) - i],
                     FracAdd(ws, Frac(d.byte_increase * val[Len(val) - i] * TicksPerSec,
                                      d.time_passed)))

\* The for loop of curve from index i (0-based) on, with the totals so far.
RECURSIVE curve_loop(_, _, _, _)
curve_loop(s, i, wtot, ws) ==
    IF i >= Len(val) THEN [kind |-> "acc", n |-> i, wtot |-> wtot, ws |-> ws]
    ELSE LET d == delta(s, 1, i)
         IN  IF d.kind = "raise" THEN d
             ELSE IF d.kind = "None"
                  THEN [kind |-> "acc", n |-> i, wtot |-> wtot, ws |-> ws]
             ELSE IF d.time_passed = 0 THEN Raise("ZeroDivisionError")
             ELSE curve_loop(s, i + 1, wtot + val[i + 1],
                     FracAdd(ws, Frac(d.byte_increase * val[i + 1] * TicksPerSec,
                                      d.time_passed)))

\* curve(spd)
curve(s) ==
    LET acc == curve_loop(s, 0, 0, <<0, 1>>)
    IN  IF acc.kind = "raise" THEN acc
        ELSE IntResult(delta_to_speed(acc.wtot * TicksPerSec, acc.ws))

\* ------------------------------------------------- a client of Speedometer
NoCall == [op |-> "init", readings |-> 0, skip |-> 0]

Init ==
    /\ spd \in {Speedometer(m) : m \in 1..MaxLog}
    /\ hist = <<>>
    /\ call = NoCall
    /\ res = NoneResult
    /\ pc = "client"
    /\ f = None
    /\ step = <<0, 0>>

Update(t, bytes) ==
    /\ Len(hist) < MaxUpdates
    /\ spd' = update(spd, t, bytes)
    /\ hist' = Append(hist, <<t, bytes>>)
    /\ call' = [op |-> "update", readings |-> 0, skip |-> 0]
    /\ res' = NoneResult
    /\ UNCHANGED <<pc, f, step>>

Delta(readings, skip) ==
    /\ call' = [op |-> "delta", readings |-> readings, skip |-> skip]
    /\ res' = delta(spd, readings, skip)
    /\ UNCHANGED <<spd, hist, pc, f, step>>

Speed(readings, skip) ==
    /\ call' = [op |-> "speed", readings |-> readings, skip |-> skip]
    /\ res' = speed(spd, readings, skip)
    /\ UNCHANGED <<spd, hist, pc, f, step>>

Curve ==
    /\ call' = [op |-> "curve", readings |-> 0, skip |-> 0]
    /\ res' = curve(spd)
    /\ UNCHANGED <<spd, hist, pc, f, step>>

ArgReadings == -1..(MaxLog + 1)
ArgSkip == -1..MaxSkip

Next ==
    \/ \E t \in Times, bytes \in Bytes : Update(t, bytes)
    \/ \E readings \in ArgReadings, skip \in ArgSkip : Delta(readings, skip)
    \/ \E readings \in ArgReadings, skip \in ArgSkip : Speed(readings, skip)
    \/ Curve

Spec == Init /\ [][Next]_vars

\* ------------------------------------------ console / wait_all / do_simple
\* do_simple: spd = Speedometer(6)
LoopMaxLog == 6

\* What one poll adds to the clock (ticks) and to the byte counter since the
\* previous recorded sample: nothing at all, bytes but no time, 1 ms, 1.5 ms.
StepChoices == {<<0, 0>>, <<0, 1>>, <<2, 1>>, <<3, 1>>}

ClockNow == IF hist = <<>> THEN 0 ELSE hist[Len(hist)][1]
CounterNow == IF hist = <<>> THEN 0 ELSE hist[Len(hist)][2]

InitLoop ==
    /\ spd = Speedometer(LoopMaxLog)
    /\ hist = <<>>
    /\ call = NoCall
    /\ res = NoneResult
    /\ pc = "wait_creation"
    /\ f = None
    /\ step = <<0, 0>>

\* NetworkTap.wait_creation: the first self.feed()
WaitCreation ==
    /\ pc = "wait_creation"
    /\ \E v \in {None, <<CounterNow>>} :
          /\ f' = v
          /\ pc' = IF v = None THEN "waiting" ELSE "do_simple"
    /\ UNCHANGED <<spd, hist, call, res, step>>

\* NetworkTap.wait_creation: while self.feed() == None: time.sleep(1)
Waiting ==
    /\ pc = "waiting"
    /\ \E v \in {None, <<CounterNow>>} :
          /\ f' = v
          /\ pc' = IF v = None THEN "waiting" ELSE "do_simple"
    /\ UNCHANGED <<spd, hist, call, res, step>>

\* do_simple taking an unavailable first read for a counter of 0.
DoSimpleStart_none_as_zero ==
    /\ pc = "do_simple"
    /\ \E v \in {None, <<CounterNow>>} :
          /\ f' = v
          /\ LET bytes == IF v = None THEN 0 ELSE v[1]
             IN  /\ spd' = update(Speedometer(LoopMaxLog), ClockNow, bytes)
                 /\ hist' = Append(hist, <<ClockNow, bytes>>)
                 /\ pc' = "loop"
    /\ UNCHANGED <<call, res, step>>

\* do_simple up to time.sleep(INITIAL_DELAY)
DoSimpleStart ==
    /\ pc = "do_simple"
    /\ \E v \in {None, <<CounterNow>>} :
          /\ f' = v
          /\ IF v = None
             THEN /\ pc' = "returned"
                  /\ UNCHANGED <<spd, hist>>
             ELSE /\ spd' = update(Speedometer(LoopMaxLog), ClockNow, v[1])
                  /\ hist' = Append(hist, <<ClockNow, v[1]>>)
                  /\ pc' = "loop"
    /\ UNCHANGED <<call, res, step>>

\* One iteration of the while True loop of do_simple.
LoopTick ==
    /\ pc = "loop"
    /\ \E v \in {None} \cup {<<s[1], s[2]>> : s \in {x \in StepChoices : Len(hist) < MaxPolls}} :
          IF v = None
          THEN /\ f' = None
               /\ pc' = "returned"
               /\ UNCHANGED <<spd, hist, call, res>>
          ELSE LET t == ClockNow + v[1]
                   bytes == CounterNow + v[2]
                   spd1 == update(spd, t, bytes)
                   s == speed(spd1, 1, 0)
                   c == curve(spd1)
                   a == speed(spd1, 0, 0)
               IN  /\ f' = <<bytes>>
                   /\ spd' = spd1
                   /\ hist' = Append(hist, <<t, bytes>>)
                   /\ call' = [op |-> "show", readings |-> 0, skip |-> 0]
                   /\ IF c.kind = "raise"
                      THEN /\ res' = c
                           /\ pc' = "crashed"
                      ELSE /\ res' = [kind |-> "show", s |-> s, c |-> c, a |-> a]
                           /\ pc' = "loop"
    /\ UNCHANGED step

\* KeyboardInterrupt: caught in console (wait_all) and in do_simple.
Interrupt ==
    /\ pc \in {"wait_creation", "waiting", "do_simple", "loop"}
    /\ pc' = "interrupted"
    /\ UNCHANGED <<spd, hist, call, res, f, step>>

NextLoop ==
    \/ WaitCreation
    \/ Waiting
    \/ DoSimpleStart
    \/ LoopTick
    \/ Interrupt

SpecLoop == InitLoop /\ [][NextLoop]_vars

\* ------------------------------------- curve and speed on a uniform history
\* Elapsed ticks and byte increase of every step of one run.
UniformTicks == {0, 1, 2, 3, 4}
UniformBytes == {0, 1, 2, 3}

InitUniform ==
    /\ spd = Speedometer(LoopMaxLog)
    /\ hist = <<>>
    /\ call = NoCall
    /\ res = NoneResult
    /\ pc = "client"
    /\ f = None
    /\ step \in UniformTicks \X UniformBytes

UniformUpdate ==
    /\ Len(hist) < MaxPolls
    /\ LET t == 2 * MaxPolls + Len(hist) * step[1]
           bytes == MaxPolls + Len(hist) * step[2]
       IN  /\ spd' = update(spd, t, bytes)
           /\ hist' = Append(hist, <<t, bytes>>)
    /\ call' = [op |-> "update", readings |-> 0, skip |-> 0]
    /\ res' = NoneResult
    /\ UNCHANGED <<pc, f, step>>

NextUniform ==
    \/ UniformUpdate
    \/ Speed(1, 0)
    \/ Curve

SpecUniform == InitUniform /\ [][NextUniform]_vars

\* ======================================================== properties
Min(a, b) == IF a < b THEN a ELSE b

\* delta's preconditions.
ValidArgs(self, readings, skip) ==
    /\ readings >= 0
    /\ readings <= self.maxlog
    /\ skip >= 0
    /\ (skip > 0 => readings > 0)

\* The sample k positions back from the newest (0 = newest).
Back(k) == spd.log[Len(spd.log) - k]

\* Timestamps and counters of a history never decrease.
NonDecreasing(h) ==
    \A i \in 1..(Len(h) - 1) : h[i][1] <= h[i + 1][1] /\ h[i][2] <= h[i + 1][2]

CountersNonDecreasing(h) ==
    \A i \in 1..(Len(h) - 1) : h[i][2] <= h[i + 1][2]

C2_StartIsFirstSample ==
    /\ (hist = <<>> <=> spd.start = None)
    /\ (hist # <<>> => spd.start = hist[1])
    /\ (/\ Len(hist) > spd.maxlog + 1
        /\ call.op = "delta" /\ call.readings = 0 /\ call.skip = 0
        => LET last == hist[Len(hist)]
           IN  IF last = hist[1] THEN res = NoneResult
               ELSE res = DeltaResult(last[1] - hist[1][1], last[2] - hist[1][2]))

C2_Witness ==
    /\ Len(hist) > spd.maxlog + 1
    /\ hist[1][2] = 0
    /\ hist[1] # spd.log[1]
    /\ hist[1][1] # spd.log[1][1]
    /\ call.op = "delta" /\ call.readings = 0 /\ call.skip = 0
    /\ res.kind = "delta"

\* What delta(readings, skip) is to return for valid arguments: insufficient
\* data when the log holds fewer than skip+1 samples, or readings > 0 and the
\* log does not hold more than readings+skip samples, or target and current
\* are the same (timestamp, counter) pair; else the two differences.
DeltaExpected(readings, skip) ==
    LET n == Len(spd.log)
    IN  IF n < skip + 1 THEN NoneResult
        ELSE IF readings > 0 /\ ~(n > readings + skip) THEN NoneResult
        ELSE LET current == Back(skip)
                 target == IF readings = 0 THEN spd.start ELSE Back(readings + skip)
             IN  IF target = current THEN NoneResult
                 ELSE DeltaResult(current[1] - target[1], current[2] - target[2])

DeltaGeneral ==
    call.op = "delta" /\ ValidArgs(spd, call.readings, call.skip)
        => res = DeltaExpected(call.readings, call.skip)

DeltaAfterOne ==
    call.op = "delta" /\ call.readings = 0 /\ call.skip = 0 /\ Len(hist) = 1
        => res = NoneResult

\* C3 as stated: ... and after two recorded samples delta(0, 0) is a valid
\* delta, the counter difference and the timestamp difference of the two.
C3_Original ==
    /\ DeltaGeneral
    /\ DeltaAfterOne
    /\ (call.op = "delta" /\ call.readings = 0 /\ call.skip = 0 /\ Len(hist) = 2
        => res = DeltaResult(hist[2][1] - hist[1][1], hist[2][2] - hist[1][2]))

\* C3 (amended): delta returns insufficient data exactly in the three cases
\* above, "identical" meaning equal in timestamp and counter, and the two
\* differences otherwise; delta(0, 0) is insufficient data after one sample
\* and, after two samples that differ in timestamp or counter, the valid
\* delta of the two.
C3_DeltaResult ==
    /\ DeltaGeneral
    /\ DeltaAfterOne
    /\ (/\ call.op = "delta" /\ call.readings = 0 /\ call.skip = 0
        /\ Len(hist) = 2 /\ hist[1] # hist[2]
        => res = DeltaResult(hist[2][1] - hist[1][1], hist[2][2] - hist[1][2]))

C3_Witness ==
    /\ call.op = "delta" /\ call.readings = 1 /\ call.skip = 1
    /\ Len(spd.log) = 3
    /\ res.kind = "delta"
    /\ res.time_passed # 0 /\ res.byte_increase # 0

\* C4: a delta query with readings < 0, readings > maxlog, skip < 0, or
\* skip > 0 with readings = 0 fails with an assertion error in every log
\* state, and leaves the log and start unchanged.
C4_InvalidArgsRejected ==
    [][(call'.op = "delta" /\ ~ValidArgs(spd, call'.readings, call'.skip))
          => (res' = Raise("AssertionError") /\ spd' = spd /\ hist' = hist)]_vars

C4_Witness ==
    /\ call.op = "delta"
    /\ call.readings = spd.maxlog + 1
    /\ call.skip = 0
    /\ Len(spd.log) = spd.maxlog + 1
    /\ res = Raise("AssertionError")

\* C5: with non-decreasing timestamps and counters, delta returns
\* insufficient data whenever no time has passed between target and current,
\* so no delta has elapsed time 0 and curve never divides by zero.
C5_NoZeroElapsedDelta ==
    NonDecreasing(hist)
        => /\ (call.op = "delta" /\ res.kind = "delta" => res.time_passed # 0)
           /\ (call.op = "curve" => res # Raise("ZeroDivisionError"))

\* C6: with non-decreasing counters every rate is >= 0: speed(readings,
\* skip) whenever available, the running average speed(), and curve(spd).
C6_RatesNonNegative ==
    CountersNonDecreasing(hist)
        => /\ (call.op = "speed" /\ res.kind = "int" => res.val >= 0)
           /\ (call.op = "curve" /\ res.kind = "int" => res.val >= 0)

\* The whole milliseconds of an elapsed time of tp > 0 ticks.
WholeMs(tp) == CHOOSE m \in 0..tp : m * TicksPerMs <= tp /\ tp < (m + 1) * TicksPerMs

\* r is the rate of (tp ticks, b bytes): 0 when tp <= 0 or tp has no whole
\* millisecond, else floor(b * 1000 / whole milliseconds of tp).
IsRate(r, tp, b) ==
    IF tp <= 0 THEN r = 0
    ELSE IF WholeMs(tp) = 0 THEN r = 0
    ELSE r * WholeMs(tp) <= b * 1000 /\ b * 1000 < (r + 1) * WholeMs(tp)

\* r is b bytes divided by tp ticks of elapsed time, truncated; 0 when
\* tp <= 0 or tp has no whole millisecond.
IsExactRate(r, tp, b) ==
    IF tp <= 0 THEN r = 0
    ELSE IF WholeMs(tp) = 0 THEN r = 0
    ELSE r = TruncDiv(b * TicksPerSec, tp)

\* The samples (t=0, 0), (t=1 s, 1000), (t=2 s, 3000).
Scenario ==
    update(update(update(Speedometer(LoopMaxLog), 0, 0), TicksPerSec, 1000),
           2 * TicksPerSec, 3000)

ScenarioSpeeds ==
    /\ speed(Scenario, 1, 0) = IntResult(2000)
    /\ speed(Scenario, 0, 0) = IntResult(1500)

\* C7 as stated: speed(1) is the byte increase of the two newest samples
\* divided by their elapsed time, truncated, and speed() likewise from start.
C7_Original ==
    LET n == Len(hist)
    IN  /\ (call.op = "speed" /\ call.readings = 1 /\ call.skip = 0 /\ res.kind = "int"
            => IsExactRate(res.val, hist[n][1] - hist[n - 1][1], hist[n][2] - hist[n - 1][2]))
        /\ (call.op = "speed" /\ call.readings = 0 /\ call.skip = 0 /\ res.kind = "int"
            => IsExactRate(res.val, hist[n][1] - hist[1][1], hist[n][2] - hist[1][2]))
        /\ ScenarioSpeeds

\* C7 (amended): speed(1) is available when the two newest samples differ,
\* and is then floor(byte increase * 1000 / elapsed whole milliseconds), the
\* elapsed time being truncated to whole milliseconds before the division;
\* speed() is the same from start to the newest sample; the rate is 0 when
\* the elapsed time is <= 0 or has no whole millisecond.  For (0 s, 0),
\* (1 s, 1000), (2 s, 3000): instant speed 2000, average 1500.
C7_SpeedIsFlooredMsRate ==
    LET n == Len(hist)
    IN  /\ (call.op = "speed" /\ call.readings = 1 /\ call.skip = 0
            => IF n >= 2 /\ hist[n] # hist[n - 1]
               THEN /\ res.kind = "int"
                    /\ IsRate(res.val, hist[n][1] - hist[n - 1][1],
                              hist[n][2] - hist[n - 1][2])
               ELSE res = NoneResult)
        /\ (call.op = "speed" /\ call.readings = 0 /\ call.skip = 0
            => IF n >= 1 /\ hist[n] # hist[1]
               THEN /\ res.kind = "int"
                    /\ IsRate(res.val, hist[n][1] - hist[1][1], hist[n][2] - hist[1][2])
               ELSE res = NoneResult)
        /\ ScenarioSpeeds

C7_Witness ==
    /\ call.op = "speed" /\ call.readings = 1 /\ call.skip = 0
    /\ Len(hist) >= 2
    /\ hist[Len(hist)][1] - hist[Len(hist) - 1][1] = 3 * TicksPerMs + 1
    /\ res.kind = "int"
    /\ res.val # 0

\* The newest LoopMaxLog single-step intervals of a full log all have the
\* same elapsed time and the same byte increase.
UniformLog ==
    /\ Len(spd.log) = LoopMaxLog + 1
    /\ \A i \in 1..(Len(spd.log) - 2) :
          /\ spd.log[i + 2][1] - spd.log[i + 1][1] = spd.log[i + 1][1] - spd.log[i][1]
          /\ spd.log[i + 2][2] - spd.log[i + 1][2] = spd.log[i + 1][2] - spd.log[i][2]

StepTicks == spd.log[2][1] - spd.log[1][1]
StepBytes == spd.log[2][2] - spd.log[1][2]

\* C8 as stated: with six equal steps in a capacity-6 log, curve(spd) equals
\* speed(1), whatever the steps' elapsed time and byte increase.
C8_Original ==
    UniformLog /\ call.op = "curve" /\ res.kind = "int" /\ speed(spd, 1, 0).kind = "int"
        => res = speed(spd, 1, 0)

\* C8 (amended): with six equal steps of a non-decreasing counter in a
\* capacity-6 log, curve(spd) equals speed(1) when the steps' elapsed time is
\* a positive whole number of milliseconds.
C8_CurveEqualsSpeedOnWholeMs ==
    /\ UniformLog
    /\ call.op = "curve"
    /\ StepTicks > 0
    /\ StepTicks % TicksPerMs = 0
    => res.kind = "int" /\ res = speed(spd, 1, 0)

C8_Witness ==
    /\ UniformLog
    /\ call.op = "curve"
    /\ StepTicks = 2 * TicksPerMs
    /\ StepBytes = 3
    /\ res.kind = "int"
    /\ res.val > 0
    /\ res = speed(spd, 1, 0)

Polling == {"wait_creation", "waiting", "do_simple", "loop"}

\* A step in which the Reading Source was read and returned unavailable.
ReadUnavailable == pc \in Polling /\ pc' # "interrupted" /\ f' = None

\* C9 as stated: on an unavailable read no sample is recorded and polling
\* goes on, while waiting for first availability and on every later tick.
C9_Original ==
    [][ReadUnavailable => (spd' = spd /\ hist' = hist /\ pc' \in Polling)]_vars

\* C9 (amended): on an unavailable read no sample is recorded; while waiting
\* for first availability (wait_creation) the source is polled again; in
\* do_simple, at the first read and on every later tick, the loop ends.
C9_UnavailableNotRecorded ==
    [][ReadUnavailable
          => /\ spd' = spd
             /\ hist' = hist
             /\ (pc \in {"wait_creation", "waiting"} => pc' = "waiting")
             /\ (pc \in {"do_simple", "loop"} => pc' = "returned")]_vars

C9_Witness ==
    /\ pc = "returned"
    /\ f = None
    /\ Len(hist) >= 2
    /\ Len(spd.log) = Len(hist)

DistinctTimes(h) ==
    \A i, j \in 1..Len(h) : i # j => h[i][1] # h[j][1]

\* The rate of the j-th most recent single step (0 = newest) of the history,
\* times the weight 6 - j.
WeightedStep(j) ==
    LET n == Len(hist)
    IN  Frac((hist[n - j][2] - hist[n - j - 1][2]) * (6 - j) * TicksPerSec,
             hist[n - j][1] - hist[n - j - 1][1])

RECURSIVE WeightedSum(_)
WeightedSum(k) ==
    IF k = 0 THEN <<0, 1>> ELSE FracAdd(WeightedSum(k - 1), WeightedStep(k - 1))

\* 6 + 5 + ... : the first k weights.
FirstWeights(k) == (k * (13 - k)) \div 2

\* C10: in the capacity-6 log, after n samples with distinct timestamps curve
\* accumulates exactly the k = min(6, n-1) most recent single-step deltas,
\* newest first with weights 6, 5, 4, 3, 2, 1, stopping at the first
\* insufficient delta; the total weight is the sum of the first k weights
\* (21 only from 7 samples on); with none accumulated the curved rate is 0.
C10_CurveAccumulation ==
    LET n == Len(hist)
        k == IF n = 0 THEN 0 ELSE Min(6, n - 1)
        acc == curve_loop(spd, 0, 0, <<0, 1>>)
    IN  /\ DistinctTimes(hist)
           => /\ acc.kind = "acc"
              /\ acc.n = k
              /\ acc.wtot = FirstWeights(k)
              /\ acc.ws = WeightedSum(k)
              /\ (acc.wtot = 21 <=> n >= 7)
              /\ (n <= 1 => curve(spd) = IntResult(0))
              /\ (call.op = "show" /\ res.kind = "show"
                  => res.c = IntResult(TruncDiv(WeightedSum(k)[1] * 1000, WeightedSum(k)[2])
                                          \div (FirstWeights(k) * 1000)))
        /\ acc.kind = "acc"
           => /\ \A i \in 0..(acc.n - 1) : delta(spd, 1, i).kind = "delta"
              /\ (acc.n < 6 => delta(spd, 1, acc.n) = NoneResult)
              /\ acc.wtot = FirstWeights(acc.n)

C10_Witness ==
    /\ Len(hist) = LoopMaxLog + 2
    /\ DistinctTimes(hist)
    /\ call.op = "show"
    /\ res.kind = "show"
    /\ res.c.kind = "int"
    /\ curve_loop(spd, 0, 0, <<0, 1>>).wtot = 21
    /\ \E i \in 1..Len(spd.log) - 2 :
          spd.log[i + 2][1] - spd.log[i + 1][1] # spd.log[i + 1][1] - spd.log[i][1]

====
